---- MODULE Spec2Model ----
(***************************************************************************)
(* Model of StatStorage (src/statstorage.cc): a flat-file time-series      *)
(* store.  One file per (metric name, week) in the directory d_root, each  *)
(* file a raw concatenation of 8-byte records {uint32 timestamp, float32   *)
(* value}.                                                                  *)
(*                                                                         *)
(* Strings are sequences of character codes (std::string is a byte         *)
(* string and may hold any byte, NUL included).  A float is carried as its *)
(* 32-bit pattern.  The file system is the function `files` from directory *)
(* entry names to byte sequences.                                          *)
(***************************************************************************)
EXTENDS Integers, Sequences, FiniteSets, Bags, TLC

----------------------------------------------------------------------------
(* Bounds of the model.                                                    *)

\* Total number of records, whole or short, the stores of one run may write.
MaxRecs == 2

\* Longest batch handed to store(name, data).
MaxBatch == 2

\* Number of short (partial) writes the environment may inject in one run.
MaxShort == 1

----------------------------------------------------------------------------
(* Program constants.                                                      *)

\* sizeof(StatStorage::Val): uint32_t timestamp + float value.
RecSize == 8

\* 7*86400, the divisor of getWeekNum and the step of the range loop.
WeekSecs == 7 * 86400

\* d_root: the storage directory ("d").
d_root == <<100>>

----------------------------------------------------------------------------
(* Inputs the actions draw from.                                           *)

\* "a", "a.1", ".b" pass validation; "a b", "", "a/b" and "a.0\0" do not.
Names ==
  { <<97>>, <<97, 46, 49>>, <<46, 98>>,
    <<97, 32, 98>>, <<>>, <<97, 47, 98>>, <<97, 46, 48, 0>> }

\* Week 0 holds 0 and 1, week 1 holds 604800.
Timestamps == {0, 1, WeekSecs}

\* The bit pattern of 1.0f.
Values == {1065353216}

\* <<begin, end>> of a ranged read: inside a week, across the week boundary,
\* between the stored points, empty and inverted.
Ranges ==
  { <<0, 1>>, <<0, WeekSecs + 1>>, <<1, WeekSecs>>, <<0, 0>>, <<1, 0>> }

\* The number argument of the ranged read: negative, zero (fewer than the
\* records a range can hold), more than them.
Numbers == {-1, 0, 10}

\* Byte counts a failing fwrite may report.
ShortCounts == {4}

Datums == [timestamp : Timestamps, value : Values]

Batches == UNION { [1..n -> Datums] : n \in 0..MaxBatch }

----------------------------------------------------------------------------
(* Strings.                                                                *)

\* c_str() handed to a C function: the bytes before the first NUL.
CStr(s) ==
  IF \A i \in 1..Len(s) : s[i] # 0 THEN s
  ELSE LET nul == CHOOSE i \in 1..Len(s) :
                    s[i] = 0 /\ \A j \in 1..(i - 1) : s[j] # 0
       IN  SubSeq(s, 1, nul - 1)

\* name.find("/") != string::npos
HasSlash(s) == \E i \in 1..Len(s) : s[i] = 47

\* The bracket expression [A-Za-z0-9_.-].
InClass(c) ==
  \/ c \in 65..90
  \/ c \in 97..122
  \/ c \in 48..57
  \/ c \in {95, 46, 45}

\* regexec(&d_preg, name.c_str(), ...) != REG_NOMATCH for "^[A-Za-z0-9_.-]+$".
RegMatch(name) ==
  LET c == CStr(name)
  IN  Len(c) > 0 /\ \A i \in 1..Len(c) : InClass(c[i])

\* std::to_string of an unsigned int.
RECURSIVE to_string(_)
to_string(n) ==
  IF n < 10 THEN <<48 + n>> ELSE to_string(n \div 10) \o <<48 + (n % 10)>>

\* boost::starts_with(s, prefix)
starts_with(s, prefix) ==
  Len(prefix) <= Len(s) /\ SubSeq(s, 1, Len(prefix)) = prefix

\* std::string operator<: lexicographic on the bytes.
RECURSIVE StrLess(_, _)
StrLess(a, b) ==
  IF b = <<>> THEN FALSE
  ELSE IF a = <<>> THEN TRUE
  ELSE IF Head(a) # Head(b) THEN Head(a) < Head(b)
  ELSE StrLess(Tail(a), Tail(b))

----------------------------------------------------------------------------
(* Shard naming.                                                           *)

getWeekNum(t) == t \div (7 * 86400)

makeFilenameNoDot(name, timestamp) ==
  d_root \o <<47>> \o name \o to_string(getWeekNum(timestamp))

makeFilename(name, timestamp) ==
  d_root \o <<47>> \o name \o <<46>> \o to_string(getWeekNum(timestamp))

----------------------------------------------------------------------------
(* Record codec: the in-memory image of a Val on a little-endian machine.  *)

U32Bytes(n) ==
  << n % 256, (n \div 256) % 256, (n \div 65536) % 256, (n \div 16777216) % 256 >>

BytesU32(b) == b[1] + 256 * b[2] + 65536 * b[3] + 16777216 * b[4]

\* The bytes fwrite(&val, 1, sizeof(val), fp) takes from a Val.
ValBytes(val) == U32Bytes(val.timestamp) \o U32Bytes(val.value)

\* The Val fread puts at the k-th record slot of a file image.
ValAt(bytes, k) ==
  LET off == RecSize * (k - 1)
  IN  [ timestamp |-> BytesU32(SubSeq(bytes, off + 1, off + 4)),
        value     |-> BytesU32(SubSeq(bytes, off + 5, off + 8)) ]

----------------------------------------------------------------------------
(* The file system under d_root.                                           *)

\* The directory entry a path names once the C library has cut it at NUL.
DirEntry(path) ==
  LET c == CStr(path)
  IN  SubSeq(c, Len(d_root) + 2, Len(c))

\* d_root itself, "." and "..": directories, never regular files.
IsDirectory(entry) == entry \in { <<>>, <<46>>, <<46, 46>> }

\* fopen(path, "a") that succeeded: the file exists afterwards.
OpenAppend(fs, entry) ==
  [ e \in DOMAIN fs \cup {entry} |-> IF e \in DOMAIN fs THEN fs[e] ELSE <<>> ]

OpenReadCreating(fs, entry) == OpenAppend(fs, entry)

\* fopen(path, "r"): creates no file and changes none, whether or not the
\* file exists.
OpenRead(fs, entry) == fs

WriteTruncating(fs, entry, bytes) ==
  [ e \in DOMAIN fs |-> IF e = entry THEN bytes ELSE fs[e] ]

\* fwrite on a stream opened in append mode: the bytes go to the end.
WriteAppend(fs, entry, bytes) ==
  [ e \in DOMAIN fs |-> IF e = entry THEN fs[e] \o bytes ELSE fs[e] ]

----------------------------------------------------------------------------
(* State.                                                                  *)

VARIABLES
  files,    \* directory entry name -> the bytes of that file
  stored,   \* history: bag of [name, timestamp, value], one per whole record a store wrote
  shorts,   \* history: number of fwrite calls that reported a short count
  call,     \* the call of the exposed interface that has just run ("none": no call),
            \* with its arguments and what the operating system did to it
  outcome,  \* how that call ended: "ok" (returned), "die" (unixDie), "throw", "crash"
  ret       \* what that call returned

vars == << files, stored, shorts, call, outcome, ret >>

\* The week-stepping loop of retrieveVals(name, begin, end), taken one
\* iteration at a time at the full width of uint32_t (SpecRange).
VARIABLES
  loop      \* [pc, begin, end, t, weeks (the weeks of the shards read), wrapped]

\* A uint32_t is the pair <<high half, low half>> of its 16-bit halves.
LoopIdle ==
  [ pc |-> "idle", begin |-> <<0, 0>>, end |-> <<0, 0>>, t |-> <<0, 0>>,
    weeks |-> << >>, wrapped |-> FALSE ]

\* Stores and a read running side by side, each taken one library call at a
\* time (SpecSteps).
VARIABLES
  writer,   \* writer -> [pc, op, data, i, weekno, fp, tmp]: a store in progress
  reader    \* [pc, dir, listing, k, fp, size, values]: a retrieve(name) in progress

\* The variables Spec leaves alone.
aside == << loop, writer, reader >>

\* A unique_ptr<FILE> that holds no stream.
NullFile == [open |-> FALSE, entry |-> << >>]

Writers == {"w1", "w2"}

WriterIdle ==
  [ pc |-> "idle", op |-> "none", data |-> << >>, i |-> 1, weekno |-> 0,
    fp |-> NullFile, tmp |-> NullFile ]

ReaderIdle ==
  [ pc |-> "idle", dir |-> FALSE, listing |-> << >>, k |-> 1, fp |-> NullFile,
    size |-> 0, values |-> << >> ]

\* What the operating system may do to a call: nothing, fail the at-th open,
\* cut the at-th fwrite to n bytes, fail opendir, or fail the at-th file read.
NoFault == [kind |-> "none", at |-> 0, n |-> 0]

OpenFault(i) == [kind |-> "open", at |-> i, n |-> 0]

WriteFault(i, k) == [kind |-> "write", at |-> i, n |-> k]

OpendirFault == [kind |-> "opendir", at |-> 0, n |-> 0]

ReadFault(i) == [kind |-> "read", at |-> i, n |-> 0]

StoreEnvs(len) ==
  {NoFault}
    \cup { OpenFault(i) : i \in 1..len }
    \cup { WriteFault(i, k) : i \in 1..len, k \in ShortCounts }

NoCall ==
  [ op |-> "none", name |-> <<>>, timestamp |-> 0, value |-> 0, data |-> <<>>,
    begin |-> 0, end |-> 0, number |-> 0, listing |-> << >>, env |-> NoFault,
    again |-> FALSE ]

\* StatStorage::StatStorage on an empty storage root.
Init ==
  /\ files = << >>
  /\ stored = EmptyBag
  /\ shorts = 0
  /\ call = NoCall
  /\ outcome = "ok"
  /\ ret = << >>
  /\ loop = LoopIdle
  /\ writer = [w \in Writers |-> WriterIdle]
  /\ reader = ReaderIdle

\* Records written so far, whole or short.
Written == BagCardinality(stored) + shorts

\* The caller has taken the result of the call; the next call can be made.
Return ==
  /\ call.op # "none"
  /\ call' = NoCall
  /\ outcome' = "ok"
  /\ ret' = << >>
  /\ UNCHANGED << files, stored, shorts >>
  /\ UNCHANGED aside

----------------------------------------------------------------------------
(* store(name, timestamp, value)                                           *)

StoreResult(fs, how, wrote, short) ==
  [files |-> fs, outcome |-> how, wrote |-> wrote, short |-> short]

storeSilentOnOpenFailure(fs, name, timestamp, value, env) ==
  IF HasSlash(name) \/ ~RegMatch(name) \/ (env.kind = "open" /\ env.at = 1)
  THEN StoreResult(fs, "ok", << >>, 0)
  ELSE
    LET entry == DirEntry(makeFilename(name, timestamp))
        val   == [timestamp |-> timestamp, value |-> value]
    IN  StoreResult(WriteAppend(OpenAppend(fs, entry), entry, ValBytes(val)),
                    "ok", <<val>>, 0)

store(fs, name, timestamp, value, env) ==
  IF HasSlash(name) THEN StoreResult(fs, "ok", << >>, 0)
  ELSE IF ~RegMatch(name) THEN StoreResult(fs, "ok", << >>, 0)
  ELSE
    LET fname == makeFilename(name, timestamp)
        entry == DirEntry(fname)
        val   == [timestamp |-> timestamp, value |-> value]
    IN  IF IsDirectory(entry) \/ (env.kind = "open" /\ env.at = 1)
        THEN StoreResult(fs, "die", << >>, 0)
        ELSE
          LET opened == OpenAppend(fs, entry)
              n      == IF env.kind = "write" /\ env.at = 1 THEN env.n ELSE RecSize
              after  == WriteAppend(opened, entry, SubSeq(ValBytes(val), 1, n))
          IN  IF n # RecSize
              THEN StoreResult(after, "throw", << >>, 1)
              ELSE StoreResult(after, "ok", <<val>>, 0)

\* The history of whole records written, as a bag.
RECURSIVE Logged(_, _, _)
Logged(log, name, wrote) ==
  IF wrote = << >> THEN log
  ELSE Logged(log (+) SetToBag({[ name |-> name,
                                  timestamp |-> Head(wrote).timestamp,
                                  value |-> Head(wrote).value ]}),
              name, Tail(wrote))

Store ==
  /\ call.op = "none"
  /\ Written < MaxRecs
  /\ \E name \in Names, timestamp \in Timestamps, value \in Values, env \in StoreEnvs(1) :
    \E r \in { store(files, name, timestamp, value, env) } :
        /\ shorts + r.short <= MaxShort
        /\ files' = r.files
        /\ stored' = Logged(stored, name, r.wrote)
        /\ shorts' = shorts + r.short
        /\ call' = [NoCall EXCEPT !.op = "store", !.name = name,
                                  !.timestamp = timestamp, !.value = value,
                                  !.env = env]
        /\ outcome' = r.outcome
        /\ ret' = << >>
  /\ UNCHANGED aside

----------------------------------------------------------------------------
(* store(name, data)                                                       *)

\* The loop of lines 58-70 from entry i on.  ub is what a build does when
\* fwrite is handed the null stream (undefined behaviour): the process is
\* killed ("crash") or fwrite reports failure ("throw").
RECURSIVE storeLoop(_, _, _, _, _, _, _, _, _)
storeLoop(fs, name, data, i, weekno, fp, wrote, env, ub) ==
  IF i > Len(data) THEN StoreResult(fs, "ok", wrote, 0)
  ELSE
    LET d        == data[i]
        reopen   == getWeekNum(d.timestamp) # weekno
        entry    == DirEntry(makeFilename(name, d.timestamp))
        openFail == reopen /\ (IsDirectory(entry) \/ (env.kind = "open" /\ env.at = i))
        weekno1  == IF reopen THEN getWeekNum(d.timestamp) ELSE weekno
        fp1      == IF reopen THEN [open |-> TRUE, entry |-> entry] ELSE fp
        opened   == IF reopen THEN OpenAppend(fs, entry) ELSE fs
        val      == [timestamp |-> d.timestamp, value |-> d.value]
        n        == IF env.kind = "write" /\ env.at = i THEN env.n ELSE RecSize
    IN  IF openFail THEN StoreResult(fs, "die", wrote, 0)
        ELSE IF ~fp1.open THEN StoreResult(fs, ub, wrote, 0)
        ELSE
          LET after == WriteAppend(opened, fp1.entry, SubSeq(ValBytes(val), 1, n))
          IN  IF n # RecSize
              THEN StoreResult(after, "throw", wrote, 1)
              ELSE storeLoop(after, name, data, i + 1, weekno1, fp1,
                             Append(wrote, val), env, ub)

storeBatch(fs, name, data, env, ub) ==
  IF HasSlash(name) THEN StoreResult(fs, "ok", << >>, 0)
  ELSE storeLoop(fs, name, data, 1, 0, NullFile, << >>, env, ub)

NullStreamOutcomes == {"crash", "throw"}

\* Every result the builds can produce: they differ only in a run that
\* reaches the null stream.
storeBatchResults(fs, name, data, env) ==
  LET r == storeBatch(fs, name, data, env, "crash")
  IN  IF r.outcome = "crash"
      THEN { storeBatch(fs, name, data, env, ub) : ub \in NullStreamOutcomes }
      ELSE {r}

StoreBatch ==
  /\ call.op = "none"
  /\ \E name \in Names, data \in { b \in Batches : Written + Len(b) <= MaxRecs } :
    \E env \in StoreEnvs(Len(data)) :
      \E r \in storeBatchResults(files, name, data, env) :
            /\ shorts + r.short <= MaxShort
            /\ files' = r.files
            /\ stored' = Logged(stored, name, r.wrote)
            /\ shorts' = shorts + r.short
            /\ call' = [NoCall EXCEPT !.op = "storeBatch", !.name = name,
                                      !.data = data, !.env = env]
            /\ outcome' = r.outcome
            /\ ret' = << >>
  /\ UNCHANGED aside

----------------------------------------------------------------------------
(* Reading.                                                                *)

\* What readdir yields for d_root: the files, "." and "..".
DirEntries(fs) == DOMAIN fs \cup { <<46>>, <<46, 46>> }

ReadResult(values, how) == [values |-> values, outcome |-> how]

\* retrieveAllFromFile.  A missing file (ENOENT) adds nothing; a directory or
\* a failing fopen/fread ends in unixDie; otherwise size / sizeof(Val) whole
\* records are read from the start of the file.
retrieveAllFromFile(fs, fname, values, failing) ==
  LET entry == DirEntry(fname)
  IN  IF ~IsDirectory(entry) /\ entry \notin DOMAIN fs
      THEN ReadResult(values, "ok")
      ELSE IF IsDirectory(entry) \/ failing
      THEN ReadResult(values, "die")
      ELSE
        LET size       == Len(fs[entry])
            numEntries == size \div RecSize
        IN  ReadResult(values \o [k \in 1..numEntries |-> ValAt(fs[entry], k)], "ok")

\* retrieveAllFromFile on each path in turn, from the i-th on.
RECURSIVE readFiles(_, _, _, _, _)
readFiles(fs, paths, i, values, env) ==
  IF i > Len(paths) THEN ReadResult(values, "ok")
  ELSE
    LET r == retrieveAllFromFile(fs, paths[i], values, env.kind = "read" /\ env.at = i)
    IN  IF r.outcome # "ok" THEN r
        ELSE readFiles(fs, paths, i + 1, r.values, env)

\* The file system after retrieveAllFromFile has opened each path in turn.
RECURSIVE afterReads(_, _)
afterReads(fs, paths) ==
  IF paths = << >> THEN fs
  ELSE afterReads(OpenRead(fs, DirEntry(Head(paths))), Tail(paths))

\* The metric name of a directory entry (lines 98-99): cut at the last '.',
\* or at the first character when none is found behind it.
RECURSIVE DotFrom(_, _)
DotFrom(d, p) == IF p = 1 \/ d[p] = 46 THEN p ELSE DotFrom(d, p - 1)

StripWeek(d) == SubSeq(d, 1, DotFrom(d, Len(d)) - 1)

\* std::sort then std::unique on strings: the distinct strings, ascending.
RECURSIVE SortUnique(_)
SortUnique(S) ==
  IF S = {} THEN << >>
  ELSE LET m == CHOOSE x \in S : \A y \in S \ {x} : StrLess(x, y)
       IN  <<m>> \o SortUnique(S \ {m})

\* getMetrics.  The order readdir yields the entries in does not reach the
\* result: the names are sorted and made unique before they are returned.
getMetrics(fs, env) ==
  IF env.kind = "opendir" THEN [names |-> << >>, outcome |-> "die"]
  ELSE
    LET shown == { d \in DirEntries(fs) : d[1] # 46 }
        names == { StripWeek(d) : d \in shown } \ { << >> }
    IN  [names |-> SortUnique(names), outcome |-> "ok"]

GetMetrics ==
  /\ call.op = "none"
  /\ \E env \in {NoFault, OpendirFault} :
       \E r \in { getMetrics(files, env) } :
           /\ call' = [NoCall EXCEPT !.op = "getMetrics", !.env = env]
           /\ outcome' = r.outcome
           /\ ret' = r.names
  /\ UNCHANGED << files, stored, shorts >>
  /\ UNCHANGED aside

\* Every order of the elements of a finite set.
RECURSIVE Orders(_)
Orders(S) ==
  IF S = {} THEN { << >> }
  ELSE UNION { { <<x>> \o r : r \in Orders(S \ {x}) } : x \in S }

\* The entries retrieveVals(name) keeps (line 125).
ShardsOf(fs, name) ==
  { d \in DirEntries(fs) : starts_with(d, name \o <<46>>) \/ d = name }

\* retrieveVals(name): `listing` is the kept entries in the order readdir
\* yielded them, which the operating system chooses.
retrieveVals(fs, name, listing, env) ==
  IF env.kind = "opendir" THEN ReadResult(<< >>, "die")
  ELSE readFiles(fs, [i \in 1..Len(listing) |-> d_root \o <<47>> \o listing[i]],
                 1, << >>, env)

\* The paths retrieveVals(name) hands to retrieveAllFromFile.
listedPaths(listing, env) ==
  IF env.kind = "opendir" THEN << >>
  ELSE [i \in 1..Len(listing) |-> d_root \o <<47>> \o listing[i]]

\* retrieve(name): each Val as a Datum.
RetrieveAll ==
  /\ call.op = "none"
  /\ \E name \in Names, env \in {NoFault, OpendirFault, ReadFault(1)} :
       \E listing \in Orders(ShardsOf(files, name)) :
         \E r \in { retrieveVals(files, name, listing, env) } :
             /\ call' = [NoCall EXCEPT !.op = "retrieveAll", !.name = name,
                                       !.listing = listing, !.env = env]
             /\ outcome' = r.outcome
             /\ ret' = IF r.outcome = "ok" THEN r.values ELSE << >>
             /\ files' = afterReads(files, listedPaths(listing, env))
  /\ UNCHANGED << stored, shorts >>
  /\ UNCHANGED aside

\* Val::operator<(const Val&), the order of is_sorted and sort.
ValLess(a, b) == a.timestamp < b.timestamp

\* Val compared with a timestamp, the order of lower_bound.
ValLessKey(a, t) == a.timestamp < t

is_sorted(values) ==
  \A i \in 1..(Len(values) - 1) : ~ValLess(values[i + 1], values[i])

Elements(seq) == { seq[i] : i \in 1..Len(seq) }

Count(seq, x) == Cardinality({ i \in 1..Len(seq) : seq[i] = x })

\* Every arrangement of the elements of a sequence: the sequences of the
\* same length that hold each element as often.
Arrangements(s) ==
  { p \in [1..Len(s) -> Elements(s)] :
      \A x \in Elements(s) : Count(p, x) = Count(s, x) }

SortOutcomesUnsorted(values) == {values}

\* Lines 169-170: a sorted sequence is left alone; std::sort leaves the
\* order of equal timestamps open, so every sorted arrangement is possible.
SortOutcomes(values) ==
  IF is_sorted(values) THEN {values}
  ELSE { p \in Arrangements(values) : is_sorted(p) }

\* The shard paths the loop of lines 164-168 reads, from t on.  The model's
\* timestamps stay below 2^31 - 604800, where the uint32_t sum does not wrap.
RECURSIVE rangePaths(_, _, _)
rangePaths(name, t, end) ==
  IF t < end + 7 * 86400
  THEN <<makeFilename(name, t)>> \o rangePaths(name, t + 7 * 86400, end)
  ELSE << >>

\* retrieveVals(name, begin, end) up to the sort.
retrieveValsRange(fs, name, begin, end, env) ==
  IF HasSlash(name) THEN ReadResult(<< >>, "ok")
  ELSE readFiles(fs, rangePaths(name, begin, end), 1, << >>, env)

\* std::lower_bound(values, t): the first position whose Val is not less
\* than t, Len(values) + 1 when there is none.
lower_bound(values, t) ==
  CHOOSE i \in 1..(Len(values) + 1) :
    /\ i = Len(values) + 1 \/ ~ValLessKey(values[i], t)
    /\ \A j \in 1..(i - 1) : ValLessKey(values[j], t)

\* Lines 188-198 on the sorted values.  reserve() of a negative difference
\* asks for more than max_size() and throws std::length_error.
retrieveSlice(values, begin, end) ==
  IF values = << >> THEN [datums |-> << >>, outcome |-> "ok"]
  ELSE
    LET beginIter == lower_bound(values, begin)
        endIter   == lower_bound(values, end)
    IN  IF endIter < beginIter
        THEN [datums |-> << >>, outcome |-> "throw"]
        ELSE [datums |-> SubSeq(values, beginIter, endIter - 1), outcome |-> "ok"]

\* The paths retrieveVals(name, begin, end) hands to retrieveAllFromFile.
rangedPaths(name, begin, end) ==
  IF HasSlash(name) THEN << >> ELSE rangePaths(name, begin, end)

retrieveLimited(fs, name, begin, end, number, env) ==
  LET v == retrieveValsRange(fs, name, begin, end, env)
  IN  { LET r    == retrieveSlice(values, begin, end)
            keep == IF number < 0 THEN 0
                    ELSE IF number < Len(r.datums) THEN number ELSE Len(r.datums)
        IN  [ datums  |-> IF v.outcome = "ok" /\ r.outcome = "ok"
                          THEN SubSeq(r.datums, 1, keep) ELSE << >>,
              outcome |-> IF v.outcome # "ok" THEN v.outcome ELSE r.outcome ] :
        values \in SortOutcomes(v.values) }

\* retrieve(name, begin, end, number): every result the call can give.  The
\* body never reads number.
retrieve(fs, name, begin, end, number, env) ==
  LET v == retrieveValsRange(fs, name, begin, end, env)
  IN  { LET r == retrieveSlice(values, begin, end)
        IN  [ datums  |-> IF v.outcome = "ok" /\ r.outcome = "ok"
                          THEN r.datums ELSE << >>,
              outcome |-> IF v.outcome # "ok" THEN v.outcome ELSE r.outcome ] :
        values \in SortOutcomes(v.values) }

Retrieve ==
  /\ call.op = "none"
  /\ \E name \in Names, range \in Ranges, number \in Numbers,
        env \in {NoFault, ReadFault(1)} :
       \E r \in retrieve(files, name, range[1], range[2], number, env) :
           /\ call' = [NoCall EXCEPT !.op = "retrieve", !.name = name,
                                     !.begin = range[1], !.end = range[2],
                                     !.number = number, !.env = env]
           /\ outcome' = r.outcome
           /\ ret' = r.datums
           /\ files' = afterReads(files, rangedPaths(name, range[1], range[2]))
  /\ UNCHANGED << stored, shorts >>
  /\ UNCHANGED aside

\* The read that has just run, made once more with the same arguments
\* before anything is written.  The directory has not changed, so readdir
\* yields its entries in the order it yielded them the first time.
ReadOps == {"getMetrics", "retrieveAll", "retrieve"}

readAgain(fs, c) ==
  IF c.op = "getMetrics"
  THEN LET r == getMetrics(fs, NoFault)
       IN  { [ret |-> r.names, outcome |-> r.outcome, files |-> fs] }
  ELSE IF c.op = "retrieveAll"
  THEN LET r == retrieveVals(fs, c.name, c.listing, NoFault)
       IN  { [ ret     |-> IF r.outcome = "ok" THEN r.values ELSE << >>,
               outcome |-> r.outcome,
               files   |-> afterReads(fs, listedPaths(c.listing, NoFault)) ] }
  ELSE { [ ret     |-> r.datums,
           outcome |-> r.outcome,
           files   |-> afterReads(fs, rangedPaths(c.name, c.begin, c.end)) ] :
         r \in retrieve(fs, c.name, c.begin, c.end, c.number, NoFault) }

Repeat ==
  /\ call.op \in ReadOps
  /\ ~call.again
  /\ call.env = NoFault
  /\ \E r \in readAgain(files, call) :
       /\ ret' = r.ret
       /\ outcome' = r.outcome
       /\ files' = r.files
  /\ call' = [call EXCEPT !.again = TRUE]
  /\ UNCHANGED << stored, shorts >>
  /\ UNCHANGED aside

----------------------------------------------------------------------------

Next ==
  Store \/ StoreBatch \/ GetMetrics \/ RetrieveAll \/ Retrieve \/ Repeat \/ Return

Spec == Init /\ [][Next]_vars

----------------------------------------------------------------------------
(* The loop of retrieveVals(name, begin, end) at 32 bits.                  *)
(*                                                                         *)
(*   for(uint32_t t = begin; t < end + 7*86400; t += 7*86400)              *)
(*                                                                         *)
(* begin and end arrive as time_t and are cut to uint32_t at the call of   *)
(* line 187; end + 7*86400 and t += 7*86400 are computed modulo 2^32.  A   *)
(* uint32_t x is the pair <<x \div 2^16, x % 2^16>>.                       *)

\* Longest run of iterations of the loop the model follows.
MaxReads == 6

\* The uint32_t of a number below 2^31.
U32Of(n) == << n \div 65536, n % 65536 >>

\* 2^32 - x, the uint32_t negation.
U32Neg(x) ==
  << (65536 - x[1] - (IF x[2] = 0 THEN 0 ELSE 1)) % 65536, (65536 - x[2]) % 65536 >>

\* x + n lies at or beyond 2^32.
U32Carry(x, n) ==
  x[1] + (n \div 65536) + (x[2] + (n % 65536)) \div 65536 >= 65536

\* x + n modulo 2^32, for n below 2^31.
U32Add(x, n) ==
  << (x[1] + (n \div 65536) + (x[2] + (n % 65536)) \div 65536) % 65536,
     (x[2] + (n % 65536)) % 65536 >>

\* x < y on uint32_t.
U32Less(x, y) == x[1] < y[1] \/ (x[1] = y[1] /\ x[2] < y[2])

\* getWeekNum on a uint32_t: t / (7*86400), with 7*86400 = 128 * 4725 and
\* 2^16 = 128 * 512, so that t / 128 = hi * 512 + lo / 128.
getWeekNumU32(t) == (t[1] * 512 + (t[2] \div 128)) \div ((7 * 86400) \div 128)

\* begin and end of the ranged reads: the first two weeks and the last two
\* weeks below 2^32.
RangeInputs ==
  { U32Of(0), U32Of(1), U32Of(7 * 86400), U32Of(7 * 86400 + 1),
    U32Neg(U32Of(2 * 7 * 86400)), U32Neg(U32Of(7 * 86400 + 1)),
    U32Neg(U32Of(7 * 86400)), U32Neg(U32Of(1)) }

\* Line 164, the initialisation: t = begin.
LoopEnter ==
  /\ loop.pc = "idle"
  /\ \E begin \in RangeInputs, end \in RangeInputs :
       loop' = [LoopIdle EXCEPT !.pc = "test", !.begin = begin, !.end = end,
                                !.t = begin]
  /\ UNCHANGED << vars, writer, reader >>

\* Lines 164-167: the test holds, the shard of t is read, t is stepped.
LoopRead ==
  /\ loop.pc = "test"
  /\ Len(loop.weeks) < MaxReads
  /\ U32Less(loop.t, U32Add(loop.end, 7 * 86400))
  /\ loop' = [loop EXCEPT !.weeks = Append(@, getWeekNumU32(loop.t)),
                          !.t = U32Add(@, 7 * 86400),
                          !.wrapped = @ \/ U32Carry(loop.t, 7 * 86400)]
  /\ UNCHANGED << vars, writer, reader >>

\* Line 164: the test fails, the loop is left.
LoopExit ==
  /\ loop.pc = "test"
  /\ ~U32Less(loop.t, U32Add(loop.end, 7 * 86400))
  /\ loop' = [loop EXCEPT !.pc = "done"]
  /\ UNCHANGED << vars, writer, reader >>

\* Line 172: retrieveVals returns.
LoopReturn ==
  /\ loop.pc = "done"
  /\ loop' = LoopIdle
  /\ UNCHANGED << vars, writer, reader >>

NextRange == LoopEnter \/ LoopRead \/ LoopExit \/ LoopReturn

SpecRange == Init /\ [][NextRange]_<< vars, loop >>

----------------------------------------------------------------------------
(* Stores and a read side by side.                                         *)
(*                                                                         *)
(* Writer w1 makes one batch store and writer w2 one single store, both    *)
(* under the valid name "a", while a reader makes one retrieve("a").  A    *)
(* step is one call into the C library or one move of a unique_ptr.  An    *)
(* fwrite that reports success has appended its record to the file in one  *)
(* piece; an open, a write or a read may fail.                             *)

\* Longest batch a writer stores.
MaxStepBatch == 2

StepName == <<97>>

\* Each writer stores a value of its own: 1.0f and 2.0f.
WriterValue(w) == IF w = "w1" THEN 1065353216 ELSE 1073741824

\* Week 0 and week 1.
StepTimestamps == {0, WeekSecs}

StepDatums(w) == [timestamp : StepTimestamps, value : {WriterValue(w)}]

StepBatches(w) == UNION { [1..n -> StepDatums(w)] : n \in 1..MaxStepBatch }

fwriteOverwriting(fs, fp, val, n) ==
  WriteTruncating(fs, fp.entry, SubSeq(ValBytes(val), 1, n))

\* fwrite(&val, 1, sizeof(val), fp.get()) that puts n bytes into the file.
fwriteAppending(fs, fp, val, n) ==
  WriteAppend(fs, fp.entry, SubSeq(ValBytes(val), 1, n))

\* The rest of the state, which these steps leave alone.
StepFrame == UNCHANGED << stored, call, outcome, ret, loop >>

\* store(name, timestamp, value) is called: lines 34-40 pass the name.
WCallStore(w) ==
  /\ w = "w2"
  /\ writer[w].pc = "idle"
  /\ \E d \in StepDatums(w) :
       writer' = [writer EXCEPT ![w] =
                    [WriterIdle EXCEPT !.pc = "open", !.op = "store", !.data = <<d>>]]
  /\ UNCHANGED << files, shorts, reader >>
  /\ StepFrame

\* store(name, data) is called: lines 52-57.
WCallBatch(w) ==
  /\ w = "w1"
  /\ writer[w].pc = "idle"
  /\ \E data \in StepBatches(w) :
       writer' = [writer EXCEPT ![w] =
                    [WriterIdle EXCEPT !.pc = "loop", !.op = "storeBatch",
                                       !.data = data]]
  /\ UNCHANGED << files, shorts, reader >>
  /\ StepFrame

\* Lines 58-61: the next entry of the batch, and whether its week differs.
WTest(w) ==
  /\ writer[w].pc = "loop"
  /\ LET p == writer[w]
     IN  writer' = [writer EXCEPT ![w] =
           IF p.i > Len(p.data) THEN [p EXCEPT !.pc = "return"]
           ELSE IF getWeekNum(p.data[p.i].timestamp) # p.weekno
           THEN [p EXCEPT !.pc = "open",
                          !.weekno = getWeekNum(p.data[p.i].timestamp)]
           ELSE [p EXCEPT !.pc = "write"]]
  /\ UNCHANGED << files, shorts, reader >>
  /\ StepFrame

\* Lines 41 and 62, the right-hand side: fopen(fname.c_str(), "a") into a
\* new unique_ptr, while fp still holds what it held.
WOpen(w) ==
  /\ writer[w].pc = "open"
  /\ \E ok \in BOOLEAN :
       LET p     == writer[w]
           entry == DirEntry(makeFilename(StepName, p.data[p.i].timestamp))
       IN  /\ files' = IF ok THEN OpenAppend(files, entry) ELSE files
           /\ writer' = [writer EXCEPT ![w] =
                [p EXCEPT !.pc = "assign",
                          !.tmp = IF ok THEN [open |-> TRUE, entry |-> entry]
                                  ELSE NullFile]]
  /\ UNCHANGED << shorts, reader >>
  /\ StepFrame

\* Lines 41-43 and 62-64: the new unique_ptr is moved into fp, which closes
\* the stream fp held; a null fp ends in unixDie.
WAssign(w) ==
  /\ writer[w].pc = "assign"
  /\ LET p == writer[w]
     IN  writer' = [writer EXCEPT ![w] =
           [p EXCEPT !.fp = p.tmp, !.tmp = NullFile,
                     !.pc = IF p.tmp.open THEN "write" ELSE "unwind"]]
  /\ UNCHANGED << files, shorts, reader >>
  /\ StepFrame

\* Lines 45-47 and 66-69: fwrite.  On the null stream the behaviour is
\* undefined; a short count throws.
WWrite(w) ==
  /\ writer[w].pc = "write"
  /\ LET p == writer[w]
     IN  IF ~p.fp.open
         THEN /\ \E ub \in NullStreamOutcomes :
                   writer' = [writer EXCEPT ![w] =
                     [p EXCEPT !.pc = IF ub = "crash" THEN "crashed" ELSE "unwind"]]
              /\ UNCHANGED << files, shorts >>
         ELSE \E n \in {RecSize} \cup (IF shorts < MaxShort THEN ShortCounts ELSE {}) :
                /\ files' = fwriteAppending(files, p.fp, p.data[p.i], n)
                /\ shorts' = IF n = RecSize THEN shorts ELSE shorts + 1
                /\ writer' = [writer EXCEPT ![w] =
                     IF n # RecSize THEN [p EXCEPT !.pc = "unwind"]
                     ELSE [p EXCEPT !.i = p.i + 1,
                                    !.pc = IF p.op = "store" THEN "return" ELSE "loop"]]
  /\ UNCHANGED reader
  /\ StepFrame

\* Lines 48 and 71: the call returns and the destructor of fp closes the
\* stream.
WReturn(w) ==
  /\ writer[w].pc = "return"
  /\ writer' = [writer EXCEPT ![w] = [@ EXCEPT !.fp = NullFile, !.pc = "done"]]
  /\ UNCHANGED << files, shorts, reader >>
  /\ StepFrame

\* An exception leaves the call: the destructor of fp closes the stream.
WUnwind(w) ==
  /\ writer[w].pc = "unwind"
  /\ writer' = [writer EXCEPT ![w] =
       [@ EXCEPT !.fp = NullFile, !.tmp = NullFile, !.pc = "failed"]]
  /\ UNCHANGED << files, shorts, reader >>
  /\ StepFrame

\* retrieve(name) is called.
RCall ==
  /\ reader.pc = "idle"
  /\ reader' = [ReaderIdle EXCEPT !.pc = "opendir"]
  /\ UNCHANGED << files, shorts, writer >>
  /\ StepFrame

\* Lines 114-128: opendir, and the entries readdir yields that match the
\* name, in the order the operating system yields them.
ROpendir ==
  /\ reader.pc = "opendir"
  /\ \E ok \in BOOLEAN :
       IF ok
       THEN \E listing \in Orders(ShardsOf(files, StepName)) :
              reader' = [reader EXCEPT !.dir = TRUE, !.listing = listing,
                                       !.pc = "next"]
       ELSE reader' = [reader EXCEPT !.pc = "unwind"]
  /\ UNCHANGED << files, shorts, writer >>
  /\ StepFrame

\* Lines 131-135: the next file of the list, or the end of the list.
RNext ==
  /\ reader.pc = "next"
  /\ reader' = [reader EXCEPT
                  !.pc = IF reader.k > Len(reader.listing) THEN "return" ELSE "fopen"]
  /\ UNCHANGED << files, shorts, writer >>
  /\ StepFrame

\* Lines 140-145: fopen(fname.c_str(), "r").  The file was listed and no
\* file is ever removed, so a failure is not ENOENT.
RFopen ==
  /\ reader.pc = "fopen"
  /\ \E ok \in BOOLEAN :
       reader' = IF ok
                 THEN [reader EXCEPT !.fp = [open |-> TRUE,
                                             entry |-> reader.listing[reader.k]],
                                     !.pc = "fstat"]
                 ELSE [reader EXCEPT !.pc = "unwind"]
  /\ UNCHANGED << files, shorts, writer >>
  /\ StepFrame

\* Line 146: filesize(fileno(fp.get())).
RFstat ==
  /\ reader.pc = "fstat"
  /\ reader' = [reader EXCEPT !.size = Len(files[reader.fp.entry]), !.pc = "fread"]
  /\ UNCHANGED << files, shorts, writer >>
  /\ StepFrame

\* Lines 147-154: size / sizeof(Val) records are read from the start of the
\* file as it is now, and the stream is closed on return.
RFread ==
  /\ reader.pc = "fread"
  /\ \E ok \in BOOLEAN :
       LET numEntries == reader.size \div RecSize
           bytes      == files[reader.fp.entry]
       IN  reader' =
             IF ok
             THEN [reader EXCEPT
                     !.values = @ \o [j \in 1..numEntries |-> ValAt(bytes, j)],
                     !.fp = NullFile, !.k = @ + 1, !.pc = "next"]
             ELSE [reader EXCEPT !.pc = "unwind"]
  /\ UNCHANGED << files, shorts, writer >>
  /\ StepFrame

\* Line 135: the call returns and the destructor of dir closes the directory.
RReturn ==
  /\ reader.pc = "return"
  /\ reader' = [reader EXCEPT !.dir = FALSE, !.pc = "done"]
  /\ UNCHANGED << files, shorts, writer >>
  /\ StepFrame

\* unixDie leaves the call: the destructors of fp and dir close both.
RUnwind ==
  /\ reader.pc = "unwind"
  /\ reader' = [reader EXCEPT !.fp = NullFile, !.dir = FALSE, !.pc = "failed"]
  /\ UNCHANGED << files, shorts, writer >>
  /\ StepFrame

NextSteps ==
  \/ \E w \in Writers :
       \/ WCallStore(w) \/ WCallBatch(w) \/ WTest(w) \/ WOpen(w)
       \/ WAssign(w) \/ WWrite(w) \/ WReturn(w) \/ WUnwind(w)
  \/ RCall \/ ROpendir \/ RNext \/ RFopen \/ RFstat \/ RFread \/ RReturn \/ RUnwind

SpecSteps == Init /\ [][NextSteps]_<< files, shorts, writer, reader >>

----------------------------------------------------------------------------
(* Vocabulary of the properties.                                           *)

\* A name the specification calls valid: no '/', and every character of the
\* whole name, of which there is at least one, in [A-Za-z0-9_.-].
ValidName(name) ==
  /\ ~HasSlash(name)
  /\ Len(name) > 0
  /\ \A i \in 1..Len(name) : InClass(name[i])

\* The directory entry name.(timestamp / 604800).
ShardEntry(name, timestamp) ==
  name \o <<46>> \o to_string(timestamp \div 604800)

AsDatum(r) == [timestamp |-> r.timestamp, value |-> r.value]

\* How often (timestamp, value) was stored under name.
StoredCount(name, d) ==
  CopiesIn([name |-> name, timestamp |-> d.timestamp, value |-> d.value], stored)

StoredUnder(name) == { AsDatum(r) : r \in { x \in BagToSet(stored) : x.name = name } }

IsPrefix(a, b) == Len(a) <= Len(b) /\ SubSeq(b, 1, Len(a)) = a

\* fs with bytes put at the end of entry, which is created when absent.
AppendedTo(fs, entry, bytes) ==
  [ e \in DOMAIN fs \cup {entry} |->
      IF e = entry
      THEN (IF e \in DOMAIN fs THEN fs[e] ELSE << >>) \o bytes
      ELSE fs[e] ]

\* fs after each entry of data, in order, went to the shard of its own week.
RECURSIVE AllPlaced(_, _, _)
AllPlaced(fs, name, data) ==
  IF data = << >> THEN fs
  ELSE AllPlaced(AppendedTo(fs, ShardEntry(name, Head(data).timestamp),
                            ValBytes(Head(data))),
                 name, Tail(data))

\* The text behind the last '.' of a file name: the week of the shard.
WeekSuffix(entry) == SubSeq(entry, DotFrom(entry, Len(entry)) + 1, Len(entry))

\* The timestamps a store call was given.
CallTimestamps(c) ==
  IF c.op = "store" THEN {c.timestamp}
  ELSE IF c.op = "storeBatch" THEN { c.data[i].timestamp : i \in 1..Len(c.data) }
  ELSE {}

----------------------------------------------------------------------------
C2_RangeExact ==
  (call.op = "retrieve" /\ outcome # "die" /\ shorts = 0
     /\ ValidName(call.name) /\ call.begin <= call.end)
    => /\ outcome = "ok"
       /\ \A d \in StoredUnder(call.name) \cup Elements(ret) :
            Count(ret, d) =
              IF call.begin <= d.timestamp /\ d.timestamp < call.end
              THEN StoredCount(call.name, d)
              ELSE 0

\* The same statement for runs in which no record was stored under a name
\* that holds a NUL character.
C2_RangeExactWithoutNul ==
  (\A r \in BagToSet(stored) : \A i \in 1..Len(r.name) : r.name[i] # 0)
    => C2_RangeExact

(* C3.  The sequence retrieve(name, begin, end, limit) returns is sorted   *)
(* ascending by timestamp.                                                 *)
C3_Sorted ==
  (call.op = "retrieve" /\ outcome = "ok")
    => \A i \in 1..Len(ret) : \A j \in i..Len(ret) :
         ret[i].timestamp <= ret[j].timestamp

\* The ranged read returned, in ascending order, two records that lie in
\* one shard file in descending order.
C3_Witness ==
  /\ call.op = "retrieve" /\ outcome = "ok"
  /\ Len(ret) = 2
  /\ ret[1].timestamp < ret[2].timestamp
  /\ \E e \in DOMAIN files :
       /\ Len(files[e]) = 2 * RecSize
       /\ ret = << ValAt(files[e], 2), ValAt(files[e], 1) >>

(* C4.  store(name, timestamp, value) with an invalid name, when the       *)
(* operating system fails no open and cuts no write short, raises no error *)
(* and changes no file.                                                    *)
C4_InvalidStoreNoOp ==
  [][ (call'.op = "store" /\ ~ValidName(call'.name)
         /\ outcome' # "die" /\ shorts' = shorts)
        => (outcome' = "ok" /\ files' = files) ]_vars

(* C5.  store(name, batch) with an invalid name changes no file.           *)
C5_InvalidBatchNoOp ==
  [][ (call'.op = "storeBatch" /\ ~ValidName(call'.name))
        => files' = files ]_vars

(* C6.  store(name, batch) with a valid name, when no open fails and no    *)
(* write is cut short, appends every entry, in input order, to the file    *)
(* name.(timestamp / 604800) and changes nothing else.                     *)
C6_BatchPlacesAll ==
  [][ (call'.op = "storeBatch" /\ ValidName(call'.name)
         /\ outcome' # "die" /\ shorts' = shorts)
        => files' = AllPlaced(files, call'.name, call'.data) ]_vars

(* C7.  After stores under valid names, none of them cut short,            *)
(* listMetrics() returns exactly the distinct stored names, ascending.     *)
C7_ListExact ==
  (call.op = "getMetrics" /\ outcome = "ok" /\ shorts = 0
     /\ \A r \in BagToSet(stored) : ValidName(r.name))
    => ret = SortUnique({ r.name : r \in BagToSet(stored) })

(* C8.  retrieve(name, begin, end, limit) with an invalid name returns the *)
(* empty sequence.                                                         *)
C8_InvalidRangeEmpty ==
  (call.op = "retrieve" /\ outcome = "ok" /\ ~ValidName(call.name))
    => ret = << >>

(* C9.  A store(name, timestamp, value) with a valid name that returns has *)
(* appended the one record (timestamp, value) to the end of the file       *)
(* name.(timestamp / 604800), created when absent, and has left every      *)
(* other file as it was.                                                   *)
C9_StoreAppendsOne ==
  [][ (call'.op = "store" /\ ValidName(call'.name) /\ outcome' = "ok")
        => files' = AppendedTo(files,
                               ShardEntry(call'.name, call'.timestamp),
                               ValBytes([timestamp |-> call'.timestamp,
                                         value |-> call'.value])) ]_vars

\* A store has put its record behind the record the shard already held.
C9_Witness ==
  /\ call.op = "store" /\ outcome = "ok" /\ ValidName(call.name)
  /\ LET e == ShardEntry(call.name, call.timestamp)
     IN  /\ e \in DOMAIN files
         /\ Len(files[e]) = 2 * RecSize
         /\ ValAt(files[e], 2) = [timestamp |-> call.timestamp, value |-> call.value]
         /\ ValAt(files[e], 1) # ValAt(files[e], 2)

(* C10.  No call deletes a file or changes the bytes a file already holds, *)
(* and a file comes into existence only through a store one of whose       *)
(* timestamps falls in the week the file is named after.                   *)
C10_AppendOnly ==
  [][ /\ \A e \in DOMAIN files :
           e \in DOMAIN files' /\ IsPrefix(files[e], files'[e])
      /\ \A e \in DOMAIN files' \ DOMAIN files :
           \E t \in CallTimestamps(call') :
             WeekSuffix(e) = to_string(t \div 604800) ]_vars

\* The first half of C10 alone: files are never deleted and only grow.
C10_FilesOnlyGrow ==
  [][ \A e \in DOMAIN files :
        e \in DOMAIN files' /\ IsPrefix(files[e], files'[e]) ]_vars

(* C11.  A store, single or batch, with a valid name that reaches an open  *)
(* the operating system fails ends in unixDie, and the files hold what the *)
(* entries before the failing one put there and nothing more: the entry    *)
(* whose file failed to open is not written.                               *)

\* The directory entries a store call tried to open and could not.  In a
\* batch the at-th entry opens a file when its week differs from the week
\* of the entry before it (from 0 for the first entry); the loop gets that
\* far when the first entry opened a file.
FailedOpens(c) ==
  IF c.env.kind # "open" THEN {}
  ELSE IF c.op = "store" THEN { ShardEntry(c.name, c.timestamp) }
  ELSE IF c.op = "storeBatch" /\ c.env.at <= Len(c.data)
  THEN LET i      == c.env.at
           week   == c.data[i].timestamp \div 604800
           before == IF i = 1 THEN 0 ELSE c.data[i - 1].timestamp \div 604800
       IN  IF week # before /\ c.data[1].timestamp \div 604800 # 0
           THEN { ShardEntry(c.name, c.data[i].timestamp) }
           ELSE {}
  ELSE {}

C11_OpenFailureFatal ==
  [][ \A e \in FailedOpens(call') :
        ValidName(call'.name)
          => /\ outcome' = "die"
             /\ files' = AllPlaced(files, call'.name,
                                   SubSeq(call'.data, 1, call'.env.at - 1)) ]_vars

\* A batch store wrote its first entry and died on the open for its second,
\* whose file does not exist.
C11_Witness ==
  /\ call.op = "storeBatch" /\ ValidName(call.name) /\ outcome = "die"
  /\ call.env.at = 2
  /\ FailedOpens(call) # {}
  /\ \A e \in FailedOpens(call) : e \notin DOMAIN files
  /\ ShardEntry(call.name, call.data[1].timestamp) \in DOMAIN files

InRange(fs, name, begin, end) ==
  LET values == retrieveValsRange(fs, name, begin, end, NoFault).values
  IN  { i \in 1..Len(values) :
          begin <= values[i].timestamp /\ values[i].timestamp < end }

C13_NumberIgnored ==
  call.op = "retrieve"
    => /\ \A number \in Numbers :
            [datums |-> ret, outcome |-> outcome]
              \in retrieve(files, call.name, call.begin, call.end, number, call.env)
       /\ (outcome = "ok" /\ call.env = NoFault /\ call.begin <= call.end)
            => Len(ret) = Cardinality(InRange(files, call.name, call.begin, call.end))

\* A ranged read with number 0, or with a negative number, returned two
\* records.
C13_Witness ==
  /\ call.op = "retrieve" /\ outcome = "ok"
  /\ call.number <= 0
  /\ Len(ret) = 2

(* C15.  After stores under valid names, none of them cut short,           *)
(* retrieve(name) of a valid name returns no record more often than it was *)
(* stored under that very name: nothing stored under another name appears. *)
C15_Isolation ==
  (call.op = "retrieveAll" /\ outcome = "ok" /\ shorts = 0
     /\ ValidName(call.name)
     /\ \A r \in BagToSet(stored) : ValidName(r.name))
    => \A d \in Elements(ret) : Count(ret, d) <= StoredCount(call.name, d)

(* C16.  retrieve(name, begin, end, limit) with a valid name and           *)
(* begin >= end, when no read fails, returns the empty sequence without    *)
(* error.                                                                  *)
C16_InvertedEmpty ==
  (call.op = "retrieve" /\ ValidName(call.name) /\ call.env = NoFault
     /\ call.begin >= call.end)
    => (outcome = "ok" /\ ret = << >>)

(* C19.  Every record either retrieve form returns is a (timestamp, value) *)
(* pair that was handed to a store, also after a store was cut short and   *)
(* later stores appended to the same file.                                 *)
C19_NoFabricated ==
  (call.op \in {"retrieveAll", "retrieve"} /\ outcome = "ok")
    => \A i \in 1..Len(ret) : AsDatum(ret[i]) \in Datums

(* C17.  The week-stepping loop of the ranged read ends after a bounded    *)
(* number of shard reads for every 32-bit begin and end: t never wraps     *)
(* past 2^32 into another round of the loop.                               *)
C17_NoWrappedRound ==
  (loop.pc = "test" /\ loop.wrapped)
    => ~U32Less(loop.t, U32Add(loop.end, 7 * 86400))

\* Every value t takes differs from begin by a multiple of 128, the
\* greatest common divisor of 7*86400 and 2^32.
C17_ResidueKept == loop.t[2] % 128 = loop.begin[2] % 128

(* C18.  For begin <= end the shards the loop has read when it ends hold   *)
(* the shard of every week from begin / 604800 to end / 604800, also when  *)
(* end + 604800 wraps modulo 2^32.                                         *)
C18_EndShardRead ==
  (loop.pc = "done" /\ ~U32Less(loop.end, loop.begin))
    => \A w \in getWeekNumU32(loop.begin)..getWeekNumU32(loop.end) :
         w \in Elements(loop.weeks)

\* The same statement for the ends whose end + 604800 stays below 2^32.
C18_EndShardReadWithoutWrap ==
  ~U32Carry(loop.end, 7 * 86400) => C18_EndShardRead

(* C14.  With every successful fwrite an append of one whole record, and   *)
(* no write cut short, each file is at every moment made of whole records, *)
(* each of them a record some writer has stored in that shard, none lost   *)
(* and none doubled; a reader running alongside returns only records some  *)
(* writer has stored, possibly only a part of a batch in progress.         *)

\* The entries of its call a writer has written so far.
StepWritten(w) == SubSeq(writer[w].data, 1, writer[w].i - 1)

AllStepWritten == UNION { Elements(StepWritten(w)) : w \in Writers }

\* How often the writers have written the record d.
StepWrittenCount(d) ==
  Cardinality({ x \in Writers \X (1..MaxStepBatch) :
                  /\ x[2] <= Len(StepWritten(x[1]))
                  /\ StepWritten(x[1])[x[2]] = d })

\* The whole records a file holds.
FileRecords(e) == [k \in 1..(Len(files[e]) \div RecSize) |-> ValAt(files[e], k)]

C14_WholeRecords ==
  shorts = 0
    => /\ \A e \in DOMAIN files :
            /\ Len(files[e]) % RecSize = 0
            /\ \A d \in Elements(FileRecords(e)) :
                 d \in AllStepWritten /\ ShardEntry(StepName, d.timestamp) = e
       /\ \A d \in AllStepWritten :
            /\ ShardEntry(StepName, d.timestamp) \in DOMAIN files
            /\ Count(FileRecords(ShardEntry(StepName, d.timestamp)), d)
                 = StepWrittenCount(d)
       /\ \A k \in 1..Len(reader.values) : reader.values[k] \in AllStepWritten

\* A file holds the two records of one writer's batch with a record of the
\* other writer between them, and the reader has returned the first of them
\* alone.
C14_Witness ==
  /\ shorts = 0
  /\ reader.pc = "done"
  /\ Len(reader.values) = 1
  /\ \E e \in DOMAIN files :
       /\ Len(FileRecords(e)) = 3
       /\ FileRecords(e)[1].value # FileRecords(e)[2].value
       /\ FileRecords(e)[1].value = FileRecords(e)[3].value
       /\ reader.values[1] = FileRecords(e)[1]

(* C20.  During a store no writer has two streams open at once, and a call *)
(* that has ended, by return or by exception, has left no stream and no    *)
(* directory open.                                                         *)

\* The streams a writer holds open.
OpenStreams(w) ==
  (IF writer[w].fp.open THEN 1 ELSE 0) + (IF writer[w].tmp.open THEN 1 ELSE 0)

Ended == {"idle", "done", "failed"}

C20_HandleLifecycle ==
  /\ \A w \in Writers : OpenStreams(w) <= 1
  /\ \A w \in Writers : writer[w].pc \in Ended => OpenStreams(w) = 0
  /\ reader.pc \in Ended => (~reader.fp.open /\ ~reader.dir)

\* The second half of C20 alone: nothing stays open when a call has ended.
C20_ReleasedOnExit ==
  /\ \A w \in Writers : writer[w].pc \in Ended => OpenStreams(w) = 0
  /\ reader.pc \in Ended => (~reader.fp.open /\ ~reader.dir)

====
